---- MODULE Spec2Model ----
(***************************************************************************)
(* A model of plugins/sudoers/testsudoers.c: the target-identity resolver  *)
(* (set_runaspw, set_runasgr, cb_runas_default and their use in main), the *)
(* per-group lookup callback cb_lookup, the post-lookup gating checks and  *)
(* the outcome reporter at the end of main.                                *)
(*                                                                         *)
(* main is modelled in three phases, each with its own specification:      *)
(*   SpecResolve  lines 335-366: initial resolution, then policy parsing   *)
(*                with its runas_default callbacks                         *)
(*   SpecWalk     lines 382-384: sudoers_lookup walking the rule groups,   *)
(*                calling cb_lookup once per group                         *)
(*   SpecReport   lines 386-437: gating, the notice, the outcome           *)
(* A phase starts where the phase before hands over; the variables of the  *)
(* other phases rest at fixed values meanwhile.                            *)
(***************************************************************************)
EXTENDS Integers, Sequences, FiniteSets

VARIABLES
    pc,                 \* position in main
    runas_user,         \* -u argument (optional string)
    runas_group,        \* -g argument (optional string)
    def_runas_default,  \* the policy's runas_default setting
    runas_pw,           \* user_ctx.runas_pw (optional passwd item)
    runas_gr,           \* user_ctx.runas_gr (optional group item)
    pw_refcnt,          \* references held on each passwd item
    gr_refcnt,          \* references held on each group item
    pw_delrefs,         \* sudo_pw_delref calls made on each passwd item
    gr_delrefs,         \* sudo_gr_delref calls made on each group item
    ncb,                \* runas_default callbacks fired so far
    pw_arg,             \* argument of the latest set_runaspw call (optional)
    cb_arg,             \* value carried by the latest callback (optional)
    first_pw,           \* runas_pw as the initial resolution left it
    pw_ok,              \* set_runaspw calls that returned
    gr_ok,              \* set_runasgr calls that returned
    parse_error,        \* parse_error
    def_authenticate,   \* def_authenticate
    validated,          \* the aggregate: a set of VALIDATE_* flags
    prev_priv,          \* cb_lookup's static prev_priv (0 is NULL)
    last,               \* the group of the latest cb_lookup call (optional)
    rec,                \* what that call printed (optional)
    before,             \* the aggregate before that group was visited
    last_definitive,    \* cmnd verdict of the latest definitive group
    before_block,       \* block of the group visited before `last` (0: none)
    before_user,        \* user verdict of that group ("none": no such group)
    lookup_result,      \* the aggregate as sudoers_lookup returned it
    gate_log,           \* the gating predicates evaluated, in order
    out,                \* lines printed by main after the lookup
    exitcode            \* main's exitcode

resolveVars == <<runas_user, runas_group, def_runas_default, runas_pw, runas_gr,
                 pw_refcnt, gr_refcnt, pw_delrefs, gr_delrefs, ncb, pw_arg,
                 cb_arg, first_pw, pw_ok, gr_ok>>
parseVars   == <<parse_error, def_authenticate>>
walkVars    == <<prev_priv, last, rec, before, last_definitive, before_block,
                 before_user>>
reportVars  == <<lookup_result, gate_log, out, exitcode>>
vars == <<pc, resolveVars, parseVars, validated, walkVars, reportVars>>

(* An optional value (a C pointer that may be NULL): <<>> or <<x>>. *)
None == <<>>
Some(x) == <<x>>

(***************************************************************************)
(* Flags of the aggregate and the tri-state match verdicts.                *)
(***************************************************************************)
VALIDATE_ERROR   == "VALIDATE_ERROR"
VALIDATE_SUCCESS == "VALIDATE_SUCCESS"
VALIDATE_FAILURE == "VALIDATE_FAILURE"

ALLOW  == "ALLOW"
DENY   == "DENY"
UNSPEC == "UNSPEC"
Verdicts == {ALLOW, DENY, UNSPEC}

EXIT_FAILURE == 1

(***************************************************************************)
(* Gating and reporting: main, lines 386-430.                              *)
(***************************************************************************)
(* CLR(validated, VALIDATE_SUCCESS); SET(validated, VALIDATE_FAILURE) *)
gate_fail(v) == (v \ {VALIDATE_SUCCESS}) \cup {VALIDATE_FAILURE}

(* One gating predicate: the external check answers ok; a failure is       *)
(* printed and downgrades the aggregate; control falls to the next check.  *)
check_step(name, msg, next) ==
    \E ok \in BOOLEAN :
        /\ gate_log' = Append(gate_log, [check |-> name, ok |-> ok])
        /\ IF ok
             THEN UNCHANGED <<out, validated>>
             ELSE /\ out' = Append(out, msg)
                  /\ validated' = gate_fail(validated)
        /\ pc' = next
        /\ UNCHANGED <<resolveVars, parseVars, walkVars, lookup_result, exitcode>>

(* A faulty variant: the check runs only while Success is still set. *)
check_step_while_success(name, msg, next) ==
    IF VALIDATE_SUCCESS \in validated
      THEN check_step(name, msg, next)
      ELSE /\ pc' = next
           /\ UNCHANGED <<resolveVars, parseVars, validated, walkVars, reportVars>>

(* if (ISSET(validated, VALIDATE_SUCCESS)) *)
GateEnter ==
    /\ pc = "gate"
    /\ pc' = IF VALIDATE_SUCCESS \in validated THEN "check_shell" ELSE "notice"
    /\ UNCHANGED <<resolveVars, parseVars, validated, walkVars, reportVars>>

CheckShell ==
    /\ pc = "check_shell"
    /\ check_step("check_user_shell", "Invalid shell for user", "check_chroot")

(* A faulty variant of the chroot check, chained to the shell check. *)
CheckChrootChained ==
    /\ pc = "check_chroot"
    /\ check_step_while_success("check_user_runchroot",
           "User is not allowed to change root directory", "check_cwd")

CheckChroot ==
    /\ pc = "check_chroot"
    /\ check_step("check_user_runchroot",
           "User is not allowed to change root directory", "check_cwd")

CheckCwd ==
    /\ pc = "check_cwd"
    /\ check_step("check_user_runcwd",
           "User is not allowed to change directory", "notice")

(* A faulty variant: the notice is held back when the outcome is an error. *)
NoticeUnlessError ==
    /\ pc = "notice"
    /\ out' = IF def_authenticate /\ ~(parse_error \/ VALIDATE_ERROR \in validated)
                THEN Append(out, "Password required") ELSE out
    /\ pc' = "report"
    /\ UNCHANGED <<resolveVars, parseVars, validated, walkVars, lookup_result,
                   gate_log, exitcode>>

(* if (def_authenticate) puts("Password required") *)
Notice ==
    /\ pc = "notice"
    /\ out' = IF def_authenticate THEN Append(out, "Password required") ELSE out
    /\ pc' = "report"
    /\ UNCHANGED <<resolveVars, parseVars, validated, walkVars, lookup_result,
                   gate_log, exitcode>>

(* A faulty variant: Success is tested before the error conditions. *)
report_outcome_success_first(pe, v) ==
    IF VALIDATE_SUCCESS \in v THEN [msg |-> "Command allowed", code |-> 0]
    ELSE IF pe \/ VALIDATE_ERROR \in v THEN [msg |-> "Parse error", code |-> 1]
    ELSE IF VALIDATE_FAILURE \in v THEN [msg |-> "Command denied", code |-> 3]
    ELSE [msg |-> "Command unmatched", code |-> 2]

(* The if / else-if chain that picks the outcome line and the exit code. *)
report_outcome(pe, v) ==
    IF pe \/ VALIDATE_ERROR \in v THEN [msg |-> "Parse error", code |-> 1]
    ELSE IF VALIDATE_SUCCESS \in v THEN [msg |-> "Command allowed", code |-> 0]
    ELSE IF VALIDATE_FAILURE \in v THEN [msg |-> "Command denied", code |-> 3]
    ELSE [msg |-> "Command unmatched", code |-> 2]

Report ==
    /\ pc = "report"
    /\ out' = Append(out, report_outcome(parse_error, validated).msg)
    /\ exitcode' = report_outcome(parse_error, validated).code
    /\ pc' = "done"
    /\ UNCHANGED <<resolveVars, parseVars, validated, walkVars, lookup_result,
                   gate_log>>

(***************************************************************************)
(* The rule-group walk: sudoers_lookup (called at lines 383-384) visits    *)
(* the groups in policy order, updates the aggregate for a group matching  *)
(* the user, and calls cb_lookup (lines 627-668) once per group.           *)
(***************************************************************************)
NumPrivs == 2
Privs == 1..NumPrivs

(* The verdicts sudoers_lookup hands to the callback for one group. The    *)
(* inner verdicts of a group that does not match the user carry nothing.   *)
Groups ==
    [user : {ALLOW}, priv : Privs, host : Verdicts, date : Verdicts,
     runas : Verdicts, cmnd : Verdicts]
    \cup
    [user : {DENY, UNSPEC}, priv : Privs, host : {UNSPEC}, date : {UNSPEC},
     runas : {UNSPEC}, cmnd : {UNSPEC}]

(* A faulty variant: a verdict once set is never overridden. *)
evaluate_first_wins(g, agg) ==
    IF agg # {} THEN agg
    ELSE IF g.host = DENY THEN agg
    ELSE IF g.date = DENY THEN agg
    ELSE IF g.runas = ALLOW
      THEN IF g.cmnd = ALLOW THEN {VALIDATE_SUCCESS}
           ELSE IF g.cmnd = DENY THEN {VALIDATE_FAILURE}
           ELSE agg
    ELSE agg

(* A faulty variant: a denying host clears the aggregate. *)
evaluate_host_clears(g, agg) ==
    IF g.host = DENY THEN {}
    ELSE IF g.date = DENY THEN agg
    ELSE IF g.runas = ALLOW
      THEN IF g.cmnd = ALLOW THEN {VALIDATE_SUCCESS}
           ELSE IF g.cmnd = DENY THEN {VALIDATE_FAILURE}
           ELSE agg
    ELSE agg

(* The per-group update of the aggregate. *)
evaluate(g, agg) ==
    IF g.host = DENY THEN agg
    ELSE IF g.date = DENY THEN agg
    ELSE IF g.runas = ALLOW
      THEN IF g.cmnd = ALLOW THEN {VALIDATE_SUCCESS}
           ELSE IF g.cmnd = DENY THEN {VALIDATE_FAILURE}
           ELSE agg
    ELSE agg

(* m == ALLOW ? "allowed" : m == DENY ? "denied" : "unmatched" *)
match_text(m) ==
    IF m = ALLOW THEN "allowed" ELSE IF m = DENY THEN "denied" ELSE "unmatched"

(* What one cb_lookup call prints: the block header with the host line,    *)
(* and the date, runas and cmnd lines; "omitted" is a line not printed.    *)
NoOutput ==
    [header |-> FALSE, host |-> "omitted", date |-> "omitted",
     runas |-> "omitted", cmnd |-> "omitted"]

(* A faulty variant: the inner lines are printed unless the host denies. *)
cb_lookup_print_unless_host_denies(g, pp) ==
    IF g.user # ALLOW THEN NoOutput
    ELSE
    [header |-> g.priv # pp,
     host   |-> IF g.priv # pp THEN match_text(g.host) ELSE "omitted",
     date   |-> IF g.host # DENY /\ g.date # UNSPEC
                  THEN (IF g.date = ALLOW THEN "allowed" ELSE "denied")
                  ELSE "omitted",
     runas  |-> IF g.host # DENY /\ g.date # DENY
                  THEN match_text(g.runas) ELSE "omitted",
     cmnd   |-> IF g.host # DENY /\ g.date # DENY /\ g.runas = ALLOW
                  THEN match_text(g.cmnd) ELSE "omitted"]

cb_lookup_print(g, pp) ==
    IF g.user # ALLOW THEN NoOutput
    ELSE
    [header |-> g.priv # pp,
     host   |-> IF g.priv # pp THEN match_text(g.host) ELSE "omitted",
     date   |-> IF g.host = ALLOW /\ g.date # UNSPEC
                  THEN (IF g.date = ALLOW THEN "allowed" ELSE "denied")
                  ELSE "omitted",
     runas  |-> IF g.host = ALLOW /\ g.date # DENY
                  THEN match_text(g.runas) ELSE "omitted",
     cmnd   |-> IF g.host = ALLOW /\ g.date # DENY /\ g.runas = ALLOW
                  THEN match_text(g.cmnd) ELSE "omitted"]

(* A faulty variant: a group not matching the user is remembered too. *)
cb_lookup_prev_no_reset(g, pp) == g.priv

(* The value cb_lookup leaves in its static prev_priv. *)
cb_lookup_prev(g, pp) == IF g.user # ALLOW THEN 0 ELSE g.priv

(* A group is definitive when its match reaches the command and the        *)
(* command is allowed or denied.                                           *)
Definitive(g) ==
    /\ g.user = ALLOW
    /\ g.host # DENY
    /\ g.date # DENY
    /\ g.runas = ALLOW
    /\ g.cmnd \in {ALLOW, DENY}

(* sudoers_lookup visits one group. *)
Visit ==
    /\ pc = "lookup"
    /\ \E g \in Groups :
        /\ validated' = IF g.user = ALLOW THEN evaluate(g, validated) ELSE validated
        /\ rec' = Some(cb_lookup_print(g, prev_priv))
        /\ prev_priv' = cb_lookup_prev(g, prev_priv)
        /\ last' = Some(g)
        /\ before' = validated
        /\ last_definitive' = IF Definitive(g) THEN g.cmnd ELSE last_definitive
        /\ before_block' = IF last = None THEN 0 ELSE last[1].priv
        /\ before_user' = IF last = None THEN "none" ELSE last[1].user
    /\ UNCHANGED <<pc, resolveVars, parseVars, reportVars>>

(* sudoers_lookup returns the aggregate. *)
EndWalk ==
    /\ pc = "lookup"
    /\ pc' = "gate"
    /\ lookup_result' = validated
    /\ UNCHANGED <<resolveVars, parseVars, validated, walkVars, gate_log, out,
                   exitcode>>

(***************************************************************************)
(* Strings are sequences of characters. The identity database and the      *)
(* strings a run may be given are small fixed sets.                        *)
(***************************************************************************)
Root    == <<"r", "o", "o", "t">>
Alice   == <<"a", "l", "i", "c", "e">>
Oper    == <<"o", "p">>
HashOp  == <<"#", "o", "p">>
Nobody  == <<"n", "o", "n", "e">>
Wheel   == <<"w", "h", "e", "e", "l">>
Staff   == <<"s", "t", "a", "f", "f">>

(* passwd and group entries of the database; fake marks a synthesized one *)
PwDb ==
    { [name |-> Root,   uid |-> 0, gid |-> 0, fake |-> FALSE],
      [name |-> Alice,  uid |-> 1, gid |-> 1, fake |-> FALSE],
      [name |-> Oper,   uid |-> 2, gid |-> 5, fake |-> FALSE],
      [name |-> HashOp, uid |-> 3, gid |-> 5, fake |-> FALSE] }
GrDb ==
    { [name |-> Wheel, gid |-> 0, fake |-> FALSE],
      [name |-> Staff, gid |-> 5, fake |-> FALSE] }

(* -u arguments and runas_default values: names present and absent, ids    *)
(* present and absent, and '#' followed by something that is no number.    *)
UserSpecs ==
    { Root, Oper, Nobody, HashOp, <<"#", "2">>, <<"#", "7">>, <<"#", "1", "2">>,
      <<"#", "x">>, <<"#">> }
(* -g arguments *)
GroupSpecs ==
    { Wheel, Staff, Nobody, <<"#", "5">>, <<"#", "7">>, <<"#", "x">>, <<"#">> }

(* user_ctx.name, user_ctx.pw and user_ctx.gid: the requesting user *)
user_ctx_name == Alice
user_ctx_pw   == CHOOSE e \in PwDb : e.name = user_ctx_name
user_ctx_gid  == user_ctx_pw.gid

(* callbacks fired while one policy is parsed *)
MaxCallbacks == 2

(***************************************************************************)
(* The identity database and the id parser, as the resolver calls them.    *)
(***************************************************************************)
Digits == {"0", "1", "2", "3", "4", "5", "6", "7", "8", "9"}
digit_value(c) ==
    CASE c = "0" -> 0 [] c = "1" -> 1 [] c = "2" -> 2 [] c = "3" -> 3
      [] c = "4" -> 4 [] c = "5" -> 5 [] c = "6" -> 6 [] c = "7" -> 7
      [] c = "8" -> 8 [] c = "9" -> 9

RECURSIVE decimal(_)
decimal(s) ==
    IF s = <<>> THEN 0
    ELSE decimal(SubSeq(s, 1, Len(s) - 1)) * 10 + digit_value(s[Len(s)])

(* sudo_strtoid(str, &errstr): ok is errstr == NULL *)
sudo_strtoid(s) ==
    IF s # <<>> /\ \A i \in 1..Len(s) : s[i] \in Digits
      THEN [ok |-> TRUE, id |-> decimal(s)]
      ELSE [ok |-> FALSE, id |-> 0]

sudo_getpwnam(name) ==
    IF \E e \in PwDb : e.name = name
      THEN Some(CHOOSE e \in PwDb : e.name = name) ELSE None
sudo_getpwuid(uid) ==
    IF \E e \in PwDb : e.uid = uid
      THEN Some(CHOOSE e \in PwDb : e.uid = uid) ELSE None
sudo_getgrnam(name) ==
    IF \E e \in GrDb : e.name = name
      THEN Some(CHOOSE e \in GrDb : e.name = name) ELSE None
sudo_getgrgid(gid) ==
    IF \E e \in GrDb : e.gid = gid
      THEN Some(CHOOSE e \in GrDb : e.gid = gid) ELSE None

(* sudo_fakepwnam(user, gid), sudo_fakegrnam(group): a placeholder entry   *)
(* named by the spec itself and bearing the id the spec spells.            *)
sudo_fakepwnam(user, gid) ==
    Some([name |-> user, uid |-> sudo_strtoid(Tail(user)).id, gid |-> gid,
          fake |-> TRUE])
sudo_fakegrnam(group) ==
    Some([name |-> group, gid |-> sudo_strtoid(Tail(group)).id, fake |-> TRUE])

(* every passwd or group item a run can hold *)
IsNumeric(s) == s # <<>> /\ Head(s) = "#" /\ sudo_strtoid(Tail(s)).ok
PwItems ==
    PwDb \cup { sudo_fakepwnam(s, user_ctx_gid)[1] : s \in {u \in UserSpecs : IsNumeric(u)} }
GrItems ==
    GrDb \cup { sudo_fakegrnam(s)[1] : s \in {g \in GroupSpecs : IsNumeric(g)} }

(***************************************************************************)
(* set_runaspw (lines 439-461) and set_runasgr (lines 463-485).            *)
(***************************************************************************)
(* A faulty variant: no placeholder when the id is not in the database. *)
set_runaspw_lookup_no_fake(user) ==
    LET byid == IF user # <<>> /\ Head(user) = "#"
                  THEN LET r == sudo_strtoid(Tail(user))
                       IN  IF r.ok THEN sudo_getpwuid(r.id) ELSE None
                  ELSE None
    IN  IF byid # None THEN byid ELSE sudo_getpwnam(user)

(* Lines 442-456: the item the call settles on; None is sudo_fatalx. *)
set_runaspw_lookup(user) ==
    LET byid == IF user # <<>> /\ Head(user) = "#"
                  THEN LET r == sudo_strtoid(Tail(user))
                       IN  IF r.ok
                             THEN IF sudo_getpwuid(r.id) # None
                                    THEN sudo_getpwuid(r.id)
                                    ELSE sudo_fakepwnam(user, user_ctx_gid)
                             ELSE None
                  ELSE None
    IN  IF byid # None THEN byid ELSE sudo_getpwnam(user)

(* Lines 466-480. *)
set_runasgr_lookup(group) ==
    LET byid == IF group # <<>> /\ Head(group) = "#"
                  THEN LET r == sudo_strtoid(Tail(group))
                       IN  IF r.ok
                             THEN IF sudo_getgrgid(r.id) # None
                                    THEN sudo_getgrgid(r.id)
                                    ELSE sudo_fakegrnam(group)
                             ELSE None
                  ELSE None
    IN  IF byid # None THEN byid ELSE sudo_getgrnam(group)

(* A faulty variant: the reference held before is not released. *)
replace_ref_leak(cnt, old, new) == [cnt EXCEPT ![new[1]] = @ + 1]

(* The lookup hands back the item with a reference added; lines 457-458    *)
(* and 481-482 drop the reference on the item held before, if any.         *)
replace_ref(cnt, old, new) ==
    LET got == [cnt EXCEPT ![new[1]] = @ + 1]
    IN  IF old # None THEN [got EXCEPT ![old[1]] = @ - 1] ELSE got

(* the delref calls of one replacement *)
count_delref(n, old) == IF old # None THEN [n EXCEPT ![old[1]] = @ + 1] ELSE n

(* One set_runaspw(user) call; control goes to next when it returns. *)
set_runaspw(user, next) ==
    LET pw == set_runaspw_lookup(user)
    IN  /\ pw_arg' = Some(user)
        /\ IF pw = None
             THEN /\ pc' = "fatal"
                  /\ UNCHANGED <<runas_pw, pw_refcnt, pw_delrefs, pw_ok>>
             ELSE /\ pc' = next
                  /\ pw_refcnt' = replace_ref(pw_refcnt, runas_pw, pw)
                  /\ pw_delrefs' = count_delref(pw_delrefs, runas_pw)
                  /\ runas_pw' = pw
                  /\ pw_ok' = pw_ok + 1

(* One set_runasgr(group) call. *)
set_runasgr(group, next) ==
    LET gr == set_runasgr_lookup(group)
    IN  IF gr = None
          THEN /\ pc' = "fatal"
               /\ UNCHANGED <<runas_gr, gr_refcnt, gr_delrefs, gr_ok>>
          ELSE /\ pc' = next
               /\ gr_refcnt' = replace_ref(gr_refcnt, runas_gr, gr)
               /\ gr_delrefs' = count_delref(gr_delrefs, runas_gr)
               /\ runas_gr' = gr
               /\ gr_ok' = gr_ok + 1

(***************************************************************************)
(* main, lines 335-344: the initial resolution.                            *)
(***************************************************************************)
(* A faulty variant: the policy default is used whenever no -u is given. *)
main_runas_spec_default(ru, rg, name, dflt) ==
    IF ru # None THEN ru[1] ELSE dflt

(* The argument main passes to set_runaspw. *)
main_runas_spec(ru, rg, name, dflt) ==
    IF rg # None
      THEN (IF ru # None THEN ru[1] ELSE name)
      ELSE (IF ru # None THEN ru[1] ELSE dflt)

(* if (runas_group != NULL) set_runasgr(runas_group); *)
MainSetRunasGr ==
    /\ pc = "main_runas"
    /\ runas_group # None
    /\ set_runasgr(runas_group[1], "main_runaspw")
    /\ UNCHANGED <<runas_user, runas_group, def_runas_default, runas_pw,
                   pw_refcnt, pw_delrefs, ncb, pw_arg, cb_arg, first_pw, pw_ok>>
    /\ UNCHANGED <<parseVars, validated, walkVars, reportVars>>

(* set_runaspw(...) of either branch *)
MainSetRunasPw ==
    /\ \/ pc = "main_runaspw"
       \/ pc = "main_runas" /\ runas_group = None
    /\ set_runaspw(main_runas_spec(runas_user, runas_group, user_ctx_name,
                                   def_runas_default), "parse")
    /\ first_pw' = runas_pw'
    /\ UNCHANGED <<runas_user, runas_group, def_runas_default, runas_gr,
                   gr_refcnt, gr_delrefs, ncb, cb_arg, gr_ok>>
    /\ UNCHANGED <<parseVars, validated, walkVars, reportVars>>

(***************************************************************************)
(* Policy parsing, lines 346-366: each runas_default setting parsed stores *)
(* its value and fires cb_runas_default (lines 504-512) with it.           *)
(***************************************************************************)
(* A faulty variant: only -u pins the target user. *)
cb_resets_runaspw_group_ignored(ru, rg) == ru = None

(* if (!runas_user && !runas_group) *)
cb_resets_runaspw(ru, rg) == ru = None /\ rg = None

cb_runas_default ==
    /\ pc = "parse"
    /\ ncb < MaxCallbacks
    /\ \E v \in UserSpecs :
        /\ def_runas_default' = v
        /\ cb_arg' = Some(v)
        /\ IF cb_resets_runaspw(runas_user, runas_group)
             THEN set_runaspw(v, "parse")
             ELSE UNCHANGED <<pc, runas_pw, pw_refcnt, pw_delrefs, pw_arg, pw_ok>>
    /\ ncb' = ncb + 1
    /\ UNCHANGED <<runas_user, runas_group, runas_gr, gr_refcnt, gr_delrefs,
                   first_pw, gr_ok>>
    /\ UNCHANGED <<parseVars, validated, walkVars, reportVars>>

(* The parser and update_defaults finish; they leave parse_error and the   *)
(* authenticate setting behind.                                            *)
ParseDone ==
    /\ pc = "parse"
    /\ pc' = "parsed"
    /\ parse_error' \in BOOLEAN
    /\ def_authenticate' \in BOOLEAN
    /\ UNCHANGED <<resolveVars, validated, walkVars, reportVars>>

(* Lines 368-375: -d without a command dumps the policy and leaves. *)
DumpOnly ==
    /\ pc = "parsed"
    /\ exitcode' = IF parse_error THEN 1 ELSE 0
    /\ pc' = "done"
    /\ UNCHANGED <<resolveVars, parseVars, validated, walkVars, lookup_result,
                   gate_log, out>>

(***************************************************************************)
(* Specifications.                                                         *)
(***************************************************************************)
Optional(S) == {None} \cup { Some(x) : x \in S }

(* the walk's and the report's variables before the lookup starts *)
WalkStart ==
    /\ validated = {}
    /\ prev_priv = 0
    /\ last = None
    /\ rec = None
    /\ before = {}
    /\ last_definitive = UNSPEC
    /\ before_block = 0
    /\ before_user = "none"
ReportStart ==
    /\ lookup_result = {}
    /\ gate_log = <<>>
    /\ out = <<>>
    /\ exitcode = EXIT_FAILURE

(* the resolver after `testsudoers alice <command>`: root, no group *)
ResolvedDefault ==
    /\ runas_user = None
    /\ runas_group = None
    /\ def_runas_default = Root
    /\ runas_pw = sudo_getpwnam(Root)
    /\ runas_gr = None
    /\ pw_refcnt = [i \in PwItems |->
                      (IF i = user_ctx_pw THEN 1 ELSE 0)
                      + (IF i.name = Root THEN 1 ELSE 0)]
    /\ gr_refcnt = [i \in GrItems |-> 0]
    /\ pw_delrefs = [i \in PwItems |-> 0]
    /\ gr_delrefs = [i \in GrItems |-> 0]
    /\ ncb = 0
    /\ pw_arg = Some(Root)
    /\ cb_arg = None
    /\ first_pw = sudo_getpwnam(Root)
    /\ pw_ok = 1
    /\ gr_ok = 0

(* Line 340 is reached: options are parsed, the requesting user is looked  *)
(* up (one reference held on it) and the defaults are initialized.         *)
InitResolve ==
    /\ pc = "main_runas"
    /\ runas_user \in Optional(UserSpecs)
    /\ runas_group \in Optional(GroupSpecs)
    /\ def_runas_default = Root
    /\ runas_pw = None
    /\ runas_gr = None
    /\ pw_refcnt = [i \in PwItems |-> IF i = user_ctx_pw THEN 1 ELSE 0]
    /\ gr_refcnt = [i \in GrItems |-> 0]
    /\ pw_delrefs = [i \in PwItems |-> 0]
    /\ gr_delrefs = [i \in GrItems |-> 0]
    /\ ncb = 0
    /\ pw_arg = None
    /\ cb_arg = None
    /\ first_pw = None
    /\ pw_ok = 0
    /\ gr_ok = 0
    /\ parse_error = FALSE
    /\ def_authenticate = FALSE
    /\ WalkStart
    /\ ReportStart

NextResolve ==
    \/ MainSetRunasGr
    \/ MainSetRunasPw
    \/ cb_runas_default
    \/ ParseDone
    \/ DumpOnly

SpecResolve == InitResolve /\ [][NextResolve]_vars

(* Line 383 is reached. *)
InitWalk ==
    /\ pc = "lookup"
    /\ ResolvedDefault
    /\ parse_error = FALSE
    /\ def_authenticate = FALSE
    /\ WalkStart
    /\ ReportStart

NextWalk ==
    \/ Visit
    \/ EndWalk

SpecWalk == InitWalk /\ [][NextWalk]_vars

(* the aggregates sudoers_lookup can return *)
LookupResults == {{}, {VALIDATE_SUCCESS}, {VALIDATE_FAILURE}, {VALIDATE_ERROR}}

(* Line 387 is reached. *)
InitReport ==
    /\ pc = "gate"
    /\ ResolvedDefault
    /\ parse_error \in BOOLEAN
    /\ def_authenticate \in BOOLEAN
    /\ validated \in LookupResults
    /\ prev_priv = 0
    /\ last = None
    /\ rec = None
    /\ before = {}
    /\ last_definitive = UNSPEC
    /\ before_block = 0
    /\ before_user = "none"
    /\ lookup_result = validated
    /\ gate_log = <<>>
    /\ out = <<>>
    /\ exitcode = EXIT_FAILURE

NextReport ==
    \/ GateEnter
    \/ CheckShell
    \/ CheckChroot
    \/ CheckCwd
    \/ Notice
    \/ Report

SpecReport == InitReport /\ [][NextReport]_vars

(***************************************************************************)
(* Properties.                                                             *)
(***************************************************************************)
OutcomeLines ==
    {"Parse error", "Command allowed", "Command denied", "Command unmatched"}
IsOutcomeLine(l) == l \in OutcomeLines
InOut(l) == \E i \in 1..Len(out) : out[i] = l

(* C1: when main has reported, out holds exactly one outcome line and it   *)
(* follows the priority table: "Parse error" / 1 whenever parse_error or   *)
(* the Error flag is set, whatever else is set; otherwise "Command         *)
(* allowed" / 0 if Success is set; otherwise "Command denied" / 3 if       *)
(* Failure is set; otherwise "Command unmatched" / 2.                      *)
C1_OutcomePriority ==
    pc = "done" =>
        LET lines == SelectSeq(out, IsOutcomeLine)
            err   == parse_error \/ VALIDATE_ERROR \in validated
            succ  == VALIDATE_SUCCESS \in validated
            fail  == VALIDATE_FAILURE \in validated
        IN  /\ Len(lines) = 1
            /\ err => lines[1] = "Parse error" /\ exitcode = 1
            /\ (~err /\ succ) => lines[1] = "Command allowed" /\ exitcode = 0
            /\ (~err /\ ~succ /\ fail) => lines[1] = "Command denied" /\ exitcode = 3
            /\ (~err /\ ~succ /\ ~fail) => lines[1] = "Command unmatched" /\ exitcode = 2

(* a parse error is reported although the aggregate holds Success *)
C1_Witness ==
    /\ pc = "done"
    /\ parse_error
    /\ VALIDATE_SUCCESS \in validated
    /\ InOut("Parse error")
    /\ exitcode = 1

(* C2: during and after the walk the aggregate is the verdict of the       *)
(* latest definitive group visited (Success if its command is allowed,     *)
(* Failure if denied) and is empty if no definitive group was visited; so  *)
(* a definitive allow after a Failure gives Success and a definitive deny  *)
(* after a Success gives Failure.                                          *)
C2_LastDefinitiveWins ==
    /\ validated = (IF last_definitive = ALLOW THEN {VALIDATE_SUCCESS}
                    ELSE IF last_definitive = DENY THEN {VALIDATE_FAILURE}
                    ELSE {})
    /\ (last # None /\ Definitive(last[1])) =>
           validated = (IF last[1].cmnd = ALLOW THEN {VALIDATE_SUCCESS}
                        ELSE {VALIDATE_FAILURE})

(* G1 denied the command, G2 allows it: the aggregate is Success *)
C2_Witness ==
    /\ last # None
    /\ Definitive(last[1])
    /\ last[1].cmnd = ALLOW
    /\ before = {VALIDATE_FAILURE}
    /\ validated = {VALIDATE_SUCCESS}

(* C3: a group matching the user whose host denies, or whose date denies,  *)
(* or whose runas is Deny or Unspecified, or whose cmnd is Unspecified,    *)
(* leaves the aggregate exactly as it was before the group was visited,    *)
(* whatever its inner verdicts are.                                        *)
C3_NonDefinitiveKeepsAggregate ==
    \A g \in Groups :
        ( /\ last = Some(g)
          /\ g.user = ALLOW
          /\ \/ g.host = DENY
             \/ g.date = DENY
             \/ g.runas \in {DENY, UNSPEC}
             \/ g.cmnd = UNSPEC )
        => validated = before

(* a denying host with an allowed command after an earlier Failure *)
C3_Witness ==
    /\ last # None
    /\ last[1].user = ALLOW
    /\ last[1].host = DENY
    /\ last[1].runas = ALLOW
    /\ last[1].cmnd = ALLOW
    /\ before = {VALIDATE_FAILURE}
    /\ validated = {VALIDATE_FAILURE}

GateMessage(check) ==
    CASE check = "check_user_shell" -> "Invalid shell for user"
      [] check = "check_user_runchroot" -> "User is not allowed to change root directory"
      [] check = "check_user_runcwd" -> "User is not allowed to change directory"
GateFailed == { i \in 1..Len(gate_log) : ~gate_log[i].ok }

(* C4: when sudoers_lookup returned Success, then once gating is over all  *)
(* three predicates have been evaluated, in order, whatever the earlier    *)
(* ones answered; exactly the failing ones are reported; Success is        *)
(* cleared and Failure set if and only if at least one failed, and the     *)
(* aggregate is untouched if none did; with a failure and no parse error   *)
(* the exit code is 3.                                                     *)
C4_GatingCumulative ==
    (pc \in {"notice", "report", "done"} /\ VALIDATE_SUCCESS \in lookup_result) =>
        /\ Len(gate_log) = 3
        /\ gate_log[1].check = "check_user_shell"
        /\ gate_log[2].check = "check_user_runchroot"
        /\ gate_log[3].check = "check_user_runcwd"
        /\ \A i \in 1..3 : InOut(GateMessage(gate_log[i].check)) <=> ~gate_log[i].ok
        /\ (GateFailed # {}) <=>
               (VALIDATE_SUCCESS \notin validated /\ VALIDATE_FAILURE \in validated)
        /\ (GateFailed = {}) => validated = lookup_result
        /\ (pc = "done" /\ GateFailed # {} /\ ~parse_error) => exitcode = 3

(* shell and chroot both denied: both reported, exit code 3 *)
C4_Witness ==
    /\ pc = "done"
    /\ VALIDATE_SUCCESS \in lookup_result
    /\ Len(gate_log) = 3
    /\ ~gate_log[1].ok
    /\ ~gate_log[2].ok
    /\ InOut("Invalid shell for user")
    /\ InOut("User is not allowed to change root directory")
    /\ validated = {VALIDATE_FAILURE}
    /\ exitcode = 3

(* the spec main passes to set_runaspw, by the four command-line cases *)
ExpectedRunasSpec ==
    CASE runas_user # None -> runas_user[1]
      [] runas_user = None /\ runas_group # None -> user_ctx_name
      [] runas_user = None /\ runas_group = None -> def_runas_default

(* C5: the initial resolution resolves the target user from the -u         *)
(* argument when one is given, from the requesting user's own name when    *)
(* only -g is given, and from the policy's runas_default (root before any  *)
(* policy is parsed) when neither is given; a target group is held only    *)
(* when -g is given, and is the resolution of the -g argument.             *)
C5_FallbackAsymmetry ==
    /\ (pw_arg # None /\ ncb = 0) => pw_arg = Some(ExpectedRunasSpec)
    /\ (pc = "parse" /\ ncb = 0) =>
           /\ runas_pw # None
           /\ runas_pw = set_runaspw_lookup(ExpectedRunasSpec)
           /\ (runas_group # None) => runas_gr = set_runasgr_lookup(runas_group[1])
    /\ (runas_gr # None) => (runas_group # None)
    /\ (runas_group = None) => gr_ok = 0

(* only -g given: the target user is the requesting user *)
C5_Witness ==
    /\ pc = "parse"
    /\ ncb = 0
    /\ runas_user = None
    /\ runas_group = Some(Staff)
    /\ runas_pw = Some(user_ctx_pw)
    /\ runas_gr # None

(* C6: once the initial resolution is done, a target user pinned by -u or  *)
(* -g is never replaced, however many runas_default callbacks fire and     *)
(* whatever they carry; with neither given, after a callback that returned *)
(* the held target user is the resolution of the value the latest          *)
(* callback carried.                                                       *)
C6_PinnedSurvivesParsing ==
    (pw_ok >= 1) =>
        /\ (runas_user # None \/ runas_group # None) =>
               /\ runas_pw = first_pw
               /\ pw_ok = 1
               /\ pc # "fatal"
        /\ (runas_user = None /\ runas_group = None /\ ncb > 0 /\ pc # "fatal") =>
               /\ runas_pw = set_runaspw_lookup(cb_arg[1])
               /\ pw_arg = cb_arg
               /\ pw_ok = ncb + 1

(* -g alone pins the target user through two callbacks naming other users *)
C6_Witness ==
    /\ pc = "parsed"
    /\ runas_user = None
    /\ runas_group # None
    /\ ncb = 2
    /\ def_runas_default = Oper
    /\ runas_pw = first_pw
    /\ runas_pw = Some(user_ctx_pw)

(* the database entries bearing an id *)
PwWithUid(id) == { e \in PwDb : e.uid = id }
GrWithGid(id) == { e \in GrDb : e.gid = id }

(* C7: a set_runaspw or set_runasgr call whose argument is '#' followed by *)
(* a parseable id never ends the process: it leaves the database entry     *)
(* with that id when there is one, and otherwise a placeholder bearing     *)
(* that id (for a user, with the requesting user's gid as primary group).  *)
(* A call with any other argument resolves by name alone: it leaves the    *)
(* database entry of that name, and ends the process when there is none.   *)
C7_NumericSynthesis ==
    /\ \A s \in UserSpecs \cup {user_ctx_name} :
         (pw_arg = Some(s)) =>
            IF IsNumeric(s)
              THEN LET id == sudo_strtoid(Tail(s)).id
                   IN  /\ pc # "fatal"
                       /\ runas_pw # None
                       /\ runas_pw[1].uid = id
                       /\ (PwWithUid(id) # {}) => runas_pw[1] \in PwWithUid(id)
                       /\ (PwWithUid(id) = {}) =>
                              /\ runas_pw[1].fake
                              /\ runas_pw[1].gid = user_ctx_gid
              ELSE IF \E e \in PwDb : e.name = s
                     THEN /\ pc # "fatal"
                          /\ runas_pw # None
                          /\ runas_pw[1] \in PwDb
                          /\ runas_pw[1].name = s
                     ELSE pc = "fatal"
    /\ \A s \in GroupSpecs :
         (runas_group = Some(s) /\ pc # "main_runas") =>
            IF IsNumeric(s)
              THEN LET id == sudo_strtoid(Tail(s)).id
                   IN  /\ runas_gr # None
                       /\ runas_gr[1].gid = id
                       /\ (GrWithGid(id) # {}) => runas_gr[1] \in GrWithGid(id)
                       /\ (GrWithGid(id) = {}) => runas_gr[1].fake
              ELSE IF \E e \in GrDb : e.name = s
                     THEN /\ runas_gr # None
                          /\ runas_gr[1] \in GrDb
                          /\ runas_gr[1].name = s
                     ELSE /\ pc = "fatal"
                          /\ runas_gr = None
                          /\ pw_arg = None

(* "#12" names no database entry: a placeholder with uid 12 is held *)
C7_Witness ==
    /\ pc = "parse"
    /\ pw_arg = Some(<<"#", "1", "2">>)
    /\ runas_pw # None
    /\ runas_pw[1].fake
    /\ runas_pw[1].uid = 12
    /\ runas_pw[1].gid = user_ctx_gid

RECURSIVE SumOver(_, _)
SumOver(f, S) ==
    IF S = {} THEN 0
    ELSE LET x == CHOOSE y \in S : TRUE IN f[x] + SumOver(f, S \ {x})

(* C8: at every point the references held on a passwd item are the one of  *)
(* user_ctx.pw, if it is the requesting user's, plus exactly one if it is  *)
(* the item runas_pw holds, and none otherwise; across n set_runaspw calls *)
(* that returned, n - 1 references were released, never more than were     *)
(* taken, so each replaced item was released once; a call ending in        *)
(* sudo_fatalx releases nothing. The same holds of group items.            *)
C8_OneLiveReference ==
    /\ \A i \in PwItems :
         pw_refcnt[i] = (IF i = user_ctx_pw THEN 1 ELSE 0)
                        + (IF runas_pw = Some(i) THEN 1 ELSE 0)
    /\ \A i \in GrItems :
         gr_refcnt[i] = (IF runas_gr = Some(i) THEN 1 ELSE 0)
    /\ SumOver(pw_delrefs, PwItems) = (IF pw_ok = 0 THEN 0 ELSE pw_ok - 1)
    /\ SumOver(gr_delrefs, GrItems) = (IF gr_ok = 0 THEN 0 ELSE gr_ok - 1)
    /\ (runas_pw # None) <=> (pw_ok > 0)
    /\ (runas_gr # None) <=> (gr_ok > 0)
    /\ (pw_ok > 0 /\ pc # "fatal") => runas_pw = set_runaspw_lookup(pw_arg[1])

(* root was resolved first, then "op": root was released once, op is held *)
C8_Witness ==
    /\ pc = "parse"
    /\ first_pw = sudo_getpwnam(Root)
    /\ runas_pw = sudo_getpwnam(Oper)
    /\ pw_ok = 2
    /\ pw_delrefs[first_pw[1]] = 1
    /\ pw_refcnt[first_pw[1]] = 0
    /\ pw_refcnt[runas_pw[1]] = 1

(* C9 as first stated: the notice is printed if and only if authentication *)
(* is required and the outcome reported is not the parse-error one.        *)
C9_NoticeOnlyWithoutError ==
    pc = "done" =>
        (InOut("Password required") <=>
            (def_authenticate /\ ~InOut("Parse error")))

(* C9: once main has reported, the notice was printed if and only if       *)
(* def_authenticate is set, whatever the outcome; when printed it is the   *)
(* line just before the outcome line, which is the last line; the exit     *)
(* code is fixed by parse_error and the aggregate alone.                   *)
C9_NoticeIffAuthenticate ==
    pc = "done" =>
        /\ InOut("Password required") <=> def_authenticate
        /\ Len(out) >= 1
        /\ IsOutcomeLine(out[Len(out)])
        /\ def_authenticate =>
               /\ Len(out) >= 2
               /\ out[Len(out) - 1] = "Password required"
        /\ \A i \in 1..(Len(out) - 2) : out[i] # "Password required"
        /\ exitcode = (IF parse_error \/ VALIDATE_ERROR \in validated THEN 1
                       ELSE IF VALIDATE_SUCCESS \in validated THEN 0
                       ELSE IF VALIDATE_FAILURE \in validated THEN 3
                       ELSE 2)

(* the notice is printed before "Parse error" *)
C9_Witness ==
    /\ pc = "done"
    /\ def_authenticate
    /\ parse_error
    /\ Len(out) >= 2
    /\ out[Len(out) - 1] = "Password required"
    /\ out[Len(out)] = "Parse error"
    /\ exitcode = 1

Reported(slot) == slot \in {"allowed", "denied", "unmatched"}

(* C10 as first stated: for a group matching the user, the date, runas and *)
(* cmnd lines are left out exactly when an outer verdict denies (all three *)
(* when the host denies, runas and cmnd when the date denies, cmnd when    *)
(* runas denies) and are printed otherwise.                                *)
C10_OmittedExactlyOnDeny ==
    \A g \in Groups :
        (last = Some(g) /\ g.user = ALLOW) =>
            /\ (rec[1].date = "omitted") <=> (g.host = DENY)
            /\ (rec[1].runas = "omitted") <=> (g.host = DENY \/ g.date = DENY)
            /\ (rec[1].cmnd = "omitted") <=>
                   (g.host = DENY \/ g.date = DENY \/ g.runas = DENY)
            /\ \A f \in {rec[1].date, rec[1].runas, rec[1].cmnd} :
                   f = "omitted" \/ Reported(f)

(* C10: for a group matching the user, the date line is printed exactly    *)
(* when the host is allowed and the date is not Unspecified, as allowed or *)
(* denied; the runas line exactly when the host is allowed and the date    *)
(* does not deny; the cmnd line exactly when the host is allowed, the date *)
(* does not deny and runas is allowed; a printed line spells the verdict;  *)
(* so no inner line is printed for a group whose host is denied or         *)
(* unmatched, and no cmnd line for a group whose host, date or runas       *)
(* denies.                                                                 *)
C10_SlotMasking ==
    \A g \in Groups :
        (last = Some(g) /\ g.user = ALLOW) =>
            /\ Reported(rec[1].date) <=> (g.host = ALLOW /\ g.date # UNSPEC)
            /\ Reported(rec[1].runas) <=> (g.host = ALLOW /\ g.date # DENY)
            /\ Reported(rec[1].cmnd) <=>
                   (g.host = ALLOW /\ g.date # DENY /\ g.runas = ALLOW)
            /\ Reported(rec[1].date) => rec[1].date = match_text(g.date)
            /\ Reported(rec[1].runas) => rec[1].runas = match_text(g.runas)
            /\ Reported(rec[1].cmnd) => rec[1].cmnd = match_text(g.cmnd)
            /\ \A f \in {rec[1].date, rec[1].runas, rec[1].cmnd} :
                   f = "omitted" \/ Reported(f)
            /\ (g.host = DENY \/ g.date = DENY \/ g.runas = DENY) =>
                   rec[1].cmnd = "omitted"

(* an unmatched host, nothing denying: no inner line is printed *)
C10_Witness ==
    /\ last # None
    /\ last[1].user = ALLOW
    /\ last[1].host = UNSPEC
    /\ last[1].date = UNSPEC
    /\ last[1].runas = UNSPEC
    /\ last[1].cmnd = UNSPEC
    /\ rec[1].date = "omitted"
    /\ rec[1].runas = "omitted"
    /\ rec[1].cmnd = "omitted"

====
